---- MODULE Spec2Model ----
(***************************************************************************)
(* jvserve: the session credential cache (AgentInterface.ROOT_ID, TOKEN,   *)
(* EXPIRATION), its login / register / retry-login flow in the blocking    *)
(* and in the coroutine variant, and the three gateway entry points        *)
(* (interact, webhook_exec, action_walker_exec) of                         *)
(* src/jvserve/lib/agent_interface.py.                                     *)
(*                                                                         *)
(* A caller is one logical thread of execution.  A caller that runs a      *)
(* blocking function is an operating-system thread and may be preempted    *)
(* between any two accesses to the class attributes; a caller that runs a  *)
(* coroutine is a task of the one event loop and gives the loop up only    *)
(* at an await (variable loop).  Every step below holds at most one        *)
(* access to the shared class attributes.                                  *)
(***************************************************************************)
EXTENDS Integers, Sequences, FiniteSets, TLC

\* ---------------------------------------------------------------- bounds
NumCallers == 1   \* logical threads that call one after the other (Spec)
MaxTime == 1      \* the clock runs from 0 to MaxTime
MaxResp == 2      \* distinct login responses
MaxCtx == 2       \* execution contexts opened in one behaviour
MaxSecretLen == 2 \* characters of a secret the codec is called under
MaxKeyLen == 3    \* characters of a string decoded as a key

Callers == 1..NumCallers
\* the callers of the concurrent specification: one more, to overlap
ConcCallers == 1..(NumCallers + 1)
RespIds == 1..MaxResp

VARIABLES
  ROOT_ID, TOKEN, EXPIRATION,  \* the class attributes of AgentInterface
  now,                         \* int(time.time())
  environ,                     \* os.environ: JIVAS_USER, JIVAS_PASSWORD set or
                               \* not, the value of JIVAS_WEBHOOK_SECRET_KEY
  procs,                       \* per caller: the locals of the call it is in
  loop,                        \* the task the event loop is running, 0 if none
  overlap,                     \* may a call begin while another is under way
  last,                        \* the call that ended most recently
  seen,                        \* an earlier call, kept to compare last with
  JASECI_CONTEXT,              \* per caller: the ContextVar's current context
  ctxs,                        \* per execution context: how often it was closed
  store,                       \* number of system-root records in the collection
  codec,                       \* the call of the key codec made last
  files,                       \* the file interface: its class, root, disk, bucket
  admin                        \* create_system_admin: its call and the user collection

vars == <<ROOT_ID, TOKEN, EXPIRATION, now, environ, procs, loop, overlap, last, seen,
          JASECI_CONTEXT, ctxs, store, codec, files, admin>>
cred == <<ROOT_ID, TOKEN, EXPIRATION>>
fixed == <<now, environ, overlap, seen, codec, files, admin>>
runtime == <<JASECI_CONTEXT, ctxs, store>>

\* ------------------------------------------------------- python values
\* ROOT_ID and TOKEN: 0 is the empty string "", r > 0 the value carried by
\* login response r.
Unset == 0

\* EXPIRATION: "" (t = "empty"), a string of decimal digits (t = "str") or a
\* JSON integer (t = "int"); n is the epoch second it denotes and src the
\* login response it came from.  A key missing from a dict is t = "missing".
EmptyStr == [t |-> "empty", n |-> 0, src |-> 0]
MissingExp == [t |-> "missing", n |-> 0, src |-> 0]
Missing == -1

\* bool(x) of an expiration value
Truthy(e) ==
  CASE e.t = "empty" -> FALSE
    [] e.t = "missing" -> FALSE
    [] e.t = "str" -> TRUE
    [] e.t = "int" -> e.n # 0

\* the local dict ctx of get_user_context
EmptyCtx == [root_id |-> Missing, token |-> Missing, expiration |-> MissingExp]
DictTruthy(c) == c.root_id # Missing \/ c.token # Missing \/ c.expiration.t # "missing"

\* the body of a login response with status 200: shape tells which keys the
\* JSON holds; its expiration lies in the future
NoResp == [rid |-> 0, shape |-> "none", expiration |-> MissingExp]
Shapes == {"full", "noUser", "noToken", "noExp"}
ExpTypes == {"str", "int"}
LoginBodies(t) ==
  {[rid |-> r, shape |-> s, expiration |-> [t |-> et, n |-> n, src |-> r]] :
      r \in RespIds, s \in Shapes, et \in ExpTypes, n \in (t + 1)..(MaxTime + 1)}

\* ------------------------------------------------------ gateway inputs
\* The webhook key, by what its percent-decoded, inverse-substituted text is:
\* not JSON at all, a falsy JSON value (0, "", [], {}, null, false), a truthy
\* JSON value that is no object (a number, a string, a list), or an object
\* whose three fields are each missing, empty or set.
FieldVals == {"missing", "empty", "set"}
NoKey == [kind |-> "none", agent_id |-> "missing", module_root |-> "missing", walker |-> "missing"]
EmptyDict == [kind |-> "dict", agent_id |-> "missing", module_root |-> "missing", walker |-> "missing"]
Keys ==
  {[NoKey EXCEPT !.kind = k] : k \in {"unparseable", "falsy", "scalar"}} \cup
  {[kind |-> "dict", agent_id |-> a, module_root |-> m, walker |-> w] :
      a \in FieldVals, m \in FieldVals, w \in FieldVals}

\* the multipart form of /action/walker: each required field is "" or set;
\* args is absent, not JSON, JSON that dict.update refuses, or a JSON object
\* (that may itself hold agent_id or reporting); attachments are absent,
\* readable or failing to read
ArgsKinds == {"none", "invalid", "notdict", "dict", "dict_agent_id", "dict_reporting"}
NoForm == [agent_id |-> "", module_root |-> "", walker |-> "", args |-> "none", attachments |-> "none"]
Forms ==
  [agent_id : {"", "set"}, module_root : {"", "set"}, walker : {"", "set"},
   args : ArgsKinds, attachments : {"none", "ok", "fail"}]

\* what a handler returns: a JSONResponse, or the runtime's value as it is
NoResponse == [kind |-> "none", status |-> 0, content |-> "none"]
JSONResponse(s, c) == [kind |-> "JSONResponse", status |-> s, content |-> c]
Raw(c) == [kind |-> "raw", status |-> 0, content |-> c]

\* the attributes a walker was spawned with
NoInvoke == [walker |-> "none", agent_id |-> "none", reporting |-> "none"]

\* what _Jac.spawn_call(...).response does: raises, or is a falsy value, an
\* object, a str holding JSON, a str holding no JSON
RuntimeOutcomes == {"raise", "falsy", "object", "jsonstr", "badstr"}

\* -------------------------------------------------------------- callers
AsyncOps == {"get_user_context_async", "load_context_async", "webhook_exec",
             "action_walker_exec"}
AwaitPcs == {"login", "json", "register", "relogin", "rejson", "body", "files"}

\* op, pc: the entry point called and where the call is; calls, outs: the
\* outbound calls made and what came back; was, t0: the class attributes and
\* the clock when the call began; the other fields are the call's locals
IdleProc ==
  [op |-> "none", pc |-> "idle", was |-> EmptyCtx, t0 |-> 0,
   calls |-> <<>>, outs |-> <<>>, resp |-> NoResp,
   ctx |-> EmptyCtx, acquiring |-> FALSE, caught |-> FALSE, ret |-> "none",
   exc |-> "none", key |-> NoKey, params |-> "none", form |-> NoForm,
   bearer |-> "none",
   response |-> NoResponse, xctx |-> 0, invoked |-> NoInvoke]

NoLast == [caller |-> 0, call |-> IdleProc]
\* a kept call, and the class attributes as it left them
NoSeen == [call |-> IdleProc, left |-> EmptyCtx]

\* ------------------------------------------------- create_system_admin
\* max_retry = 1
max_retry == 1

\* insert attempts followed in one call: the while loop has no bound of its
\* own on attempts that neither return an id nor raise
MaxInserts == 4

PyMongoErrors == {"ConnectionFailure", "OperationFailure"}

\* what one pass through the try block meets: insert_one returns a result
\* whose inserted_id is set (id) or not, or a statement of the block raises
\* exc (insert_one where id is FALSE, BulkWrite.commit where id is TRUE);
\* label: ex.has_error_label("TransientTransactionError")
InsertOutcomes ==
  {o \in [id : BOOLEAN,
          exc : {"none", "Exception"} \cup PyMongoErrors,
          label : BOOLEAN] : o.label => o.exc \in PyMongoErrors}

\* users: documents of the user collection with the configured email;
\* found: find_by_email(email); retry: the loop's counter; inserts, outs:
\* the insert_one calls made and what each pass met; aborted, committed:
\* session.abort_transaction() and BulkWrite.commit(session) having run
NoAdmin ==
  [pc |-> "idle", users |-> 0, found |-> FALSE, retry |-> 0, inserts |-> 0,
   outs |-> <<>>, aborted |-> FALSE, committed |-> FALSE,
   ret |-> "none", exc |-> "none"]

IsTask(rec) == rec.op \in AsyncOps

\* -------------------------------------------- get_user_context: pieces
\* the if at the head of get_user_context: EXPIRATION and
\* EXPIRATION.isdigit() and int(EXPIRATION) > now
CacheCheck(e, t) ==
  IF ~Truthy(e) THEN "miss"
  ELSE IF e.t = "int" THEN "AttributeError"
  ELSE IF e.n > t THEN "hit" ELSE "miss"

\* the check with "not password" left out: C15 must tell it from the code
Configured_UserOnly(env) == env.JIVAS_USER

\* not (not user or not password)
Configured(env) == env.JIVAS_USER /\ env.JIVAS_PASSWORD

\* the AttributeErrors, by the attribute that is not there: int.isdigit
\* (the cache check), .get of a decoded key that is no dict, None.close
NoIsdigit == "AttributeError: 'int' object has no attribute 'isdigit'"
NoGet == "AttributeError: object has no attribute 'get'"
NoClose == "AttributeError: 'NoneType' object has no attribute 'close'"

\* an exception leaves the entry point
Raise(rec, name) == [rec EXCEPT !.pc = "done", !.ret = "raised", !.exc = name]

\* the entry point returns
Return(rec) == [rec EXCEPT !.pc = "done", !.ret = "returned"]

\* get_user_context[_async] returns dict c: to its caller, or on into
\* load_context_async (if ctx: the three assignments; get_jaseci_context),
\* where the response object is out of scope
CredReturn(rec, c) ==
  IF rec.op \in {"get_user_context", "get_user_context_async"}
  THEN Return([rec EXCEPT !.ctx = c])
  ELSE IF rec.op \in {"api_interact", "api_pulse"}
  THEN \* if not ctx: return {}
       IF DictTruthy(c) THEN [rec EXCEPT !.ctx = c, !.resp = NoResp, !.pc = "api_token"]
       ELSE Return([rec EXCEPT !.ctx = c, !.resp = NoResp, !.response = Raw("{}")])
  ELSE [rec EXCEPT !.ctx = c, !.resp = NoResp,
                   !.pc = IF DictTruthy(c) THEN "lc_root" ELSE "jctx"]

\* from the first line of get_user_context to its first outbound call
CredEnter(rec0, e, t, env) ==
  LET rec == [rec0 EXCEPT !.acquiring = TRUE] IN
  CASE CacheCheck(e, t) = "AttributeError" -> Raise(rec, NoIsdigit)
    [] CacheCheck(e, t) = "hit" -> [rec EXCEPT !.pc = "hit"]
    [] OTHER ->
         IF ~Configured(env) THEN CredReturn(rec, EmptyCtx)
         ELSE [rec EXCEPT !.pc = "login", !.calls = <<"login">>]

\* ------------------------------------------------ webhook key: the cipher
\* A str is a sequence of characters, a character a string of its own.
\* string.ascii_lowercase, string.ascii_uppercase and their concatenation
ascii_lowercase ==
  <<"a", "b", "c", "d", "e", "f", "g", "h", "i", "j", "k", "l", "m",
    "n", "o", "p", "q", "r", "s", "t", "u", "v", "w", "x", "y", "z">>
ascii_uppercase ==
  <<"A", "B", "C", "D", "E", "F", "G", "H", "I", "J", "K", "L", "M",
    "N", "O", "P", "Q", "R", "S", "T", "U", "V", "W", "X", "Y", "Z">>
ascii_letters == ascii_lowercase \o ascii_uppercase

\* a letter outside a-z / A-Z, in its two cases (U+00E9 and U+00C9)
e_acute == "e-acute"
E_acute == "E-acute"

Digits == {"0", "1", "2", "3", "4", "5", "6", "7", "8", "9"}

CharsOf(s) == {s[i] : i \in DOMAIN s}
IndexIn(s, c) == CHOOSE i \in DOMAIN s : s[i] = c

\* str.lower, str.upper and str.isalpha, of one character
lower(c) ==
  IF c \in CharsOf(ascii_uppercase) THEN ascii_lowercase[IndexIn(ascii_uppercase, c)]
  ELSE IF c = E_acute THEN e_acute ELSE c
upper(c) ==
  IF c \in CharsOf(ascii_lowercase) THEN ascii_uppercase[IndexIn(ascii_lowercase, c)]
  ELSE IF c = e_acute THEN E_acute ELSE c
isalpha(c) == c \in CharsOf(ascii_letters) \cup {e_acute, E_acute}

\* the characters of s in the order of their first occurrence
FirstOccurrences(s) ==
  LET F[i \in 0..Len(s)] ==
        IF i = 0 THEN <<>>
        ELSE IF \E j \in 1..(i - 1) : s[j] = s[i] THEN F[i - 1]
        ELSE Append(F[i - 1], s[i])
  IN F[Len(s)]

\* the secret the environment holds when JIVAS_WEBHOOK_SECRET_KEY is unset
DefaultSecret == <<"A", "B", "C", "D", "E", "F", "G", "H", "I", "J", "K">>

\* generate_cipher_alphabet, of the secret the environment holds: the pair
\* (key_unique, remaining)
generate_cipher_alphabet(secret) ==
  LET secret_key == [i \in 1..Len(secret) |-> lower(secret[i])] \o
                    [i \in 1..Len(secret) |-> upper(secret[i])]
      key_unique == FirstOccurrences(SelectSeq(secret_key, isalpha))
      NotSeen(c) == c \notin CharsOf(key_unique) /\ isalpha(c)
      remaining == SelectSeq(ascii_letters, NotSeen)
  IN <<key_unique, remaining>>

\* str.maketrans(x, y) of two strings of equal length (ValueError otherwise):
\* the dict that sends x[i] to y[i], a later i overriding an earlier one
maketrans(x, y) ==
  [c \in CharsOf(x) |->
     y[CHOOSE i \in DOMAIN x : x[i] = c /\ \A j \in DOMAIN x : x[j] = c => j <= i]]

\* str.translate substituting nothing: C19 must tell it from the code
translate_NothingSubstituted(text, table) == text

\* str.translate
translate(text, table) ==
  [i \in 1..Len(text) |-> IF text[i] \in DOMAIN table THEN table[text[i]] ELSE text[i]]

\* the names of the three fields
agent_id_name == <<"a", "g", "e", "n", "t", "_", "i", "d">>
module_root_name == <<"m", "o", "d", "u", "l", "e", "_", "r", "o", "o", "t">>
walker_name == <<"w", "a", "l", "k", "e", "r">>

\* a python dict of str to str is the set of its (key, value) pairs
TupleDict(agent_id, module_root, walker) ==
  {<<agent_id_name, agent_id>>, <<module_root_name, module_root>>,
   <<walker_name, walker>>}

\* json.dumps of a str none of whose characters needs an escape
JsonString(s) == <<"\"">> \o s \o <<"\"">>

\* json.dumps({"agent_id": ..., "module_root": ..., "walker": ...},
\*            separators=(",", ":"))
json_dumps(agent_id, module_root, walker) ==
  <<"{">> \o JsonString(agent_id_name) \o <<":">> \o JsonString(agent_id) \o
  <<",">> \o JsonString(module_root_name) \o <<":">> \o JsonString(module_root) \o
  <<",">> \o JsonString(walker_name) \o <<":">> \o JsonString(walker) \o <<"}">>

\* urllib.parse.quote: letters, digits and _ . - ~ / stay, any other
\* character becomes % and the two hex digits of its byte
PercentCodes ==
  {<<"{", "7", "B">>, <<"}", "7", "D">>, <<"\"", "2", "2">>, <<":", "3", "A">>,
   <<",", "2", "C">>, <<"%", "2", "5">>}
Unsafe == {pc[1] : pc \in PercentCodes}
quote(text) ==
  LET Q[i \in 0..Len(text)] ==
        IF i = 0 THEN <<>>
        ELSE IF text[i] \in Unsafe
        THEN LET pc == CHOOSE x \in PercentCodes : x[1] = text[i]
             IN Q[i - 1] \o <<"%", pc[2], pc[3]>>
        ELSE Append(Q[i - 1], text[i])
  IN Q[Len(text)]

\* urllib.parse.unquote, from position i on: % and two hex digits become the
\* character of that byte, everything else stays
RECURSIVE unquoteFrom(_, _)
unquoteFrom(key, i) ==
  IF i > Len(key) THEN <<>>
  ELSE IF /\ key[i] = "%"
          /\ i + 2 <= Len(key)
          /\ \E pc \in PercentCodes : pc[2] = key[i + 1] /\ pc[3] = key[i + 2]
  THEN LET pc == CHOOSE x \in PercentCodes : x[2] = key[i + 1] /\ x[3] = key[i + 2]
       IN <<pc[1]>> \o unquoteFrom(key, i + 3)
  ELSE <<key[i]>> \o unquoteFrom(key, i + 1)
unquote(key) == unquoteFrom(key, 1)

\* ---- json.loads, of a text without white space, backslash, sign or point
JsonRaises == [kind |-> "raise", val |-> <<>>]

IsInt(s) ==
  /\ Len(s) >= 1
  /\ \A i \in DOMAIN s : s[i] \in Digits
  /\ Len(s) = 1 \/ s[1] # "0"
IsNumber(s) ==
  \/ IsInt(s)
  \/ \E k \in 2..(Len(s) - 1) :
       /\ s[k] \in {"e", "E"}
       /\ IsInt(SubSeq(s, 1, k - 1))
       /\ \A i \in (k + 1)..Len(s) : s[i] \in Digits
JsonLiterals ==
  {<<"t", "r", "u", "e">>, <<"f", "a", "l", "s", "e">>, <<"n", "u", "l", "l">>,
   <<"N", "a", "N">>, <<"I", "n", "f", "i", "n", "i", "t", "y">>}
IsString(s) ==
  /\ Len(s) >= 2
  /\ s[1] = "\"" /\ s[Len(s)] = "\""
  /\ \A i \in 2..(Len(s) - 1) : s[i] # "\""

\* the closing quote of the string that opens at position i of t, 0 if none
ClosingQuote(t, i) ==
  IF \E j \in (i + 1)..Len(t) : t[j] = "\""
  THEN CHOOSE j \in (i + 1)..Len(t) : t[j] = "\"" /\ \A k \in (i + 1)..(j - 1) : t[k] # "\""
  ELSE 0

\* the members "name":"value",... of an object from position i of t on, d
\* being the dict read so far: a name read again overrides
RECURSIVE JsonMembers(_, _, _)
JsonMembers(t, i, d) ==
  IF i > Len(t) \/ t[i] # "\"" THEN JsonRaises
  ELSE LET j == ClosingQuote(t, i) IN
    IF j = 0 \/ j + 2 > Len(t) \/ t[j + 1] # ":" \/ t[j + 2] # "\"" THEN JsonRaises
    ELSE LET k == ClosingQuote(t, j + 2) IN
      IF k = 0 THEN JsonRaises
      ELSE LET name == SubSeq(t, i + 1, j - 1)
               value == SubSeq(t, j + 3, k - 1)
               dd == {p \in d : p[1] # name} \cup {<<name, value>>}
           IN IF k = Len(t) THEN [kind |-> "dict", val |-> dd]
              ELSE IF t[k + 1] = "," THEN JsonMembers(t, k + 2, dd)
              ELSE JsonRaises

json_loads(t) ==
  IF IsNumber(t) THEN [kind |-> "number", val |-> t]
  ELSE IF t \in JsonLiterals THEN [kind |-> "literal", val |-> t]
  ELSE IF IsString(t) THEN [kind |-> "str", val |-> SubSeq(t, 2, Len(t) - 1)]
  ELSE IF Len(t) >= 2 /\ t[1] = "{" /\ t[Len(t)] = "}"
  THEN IF Len(t) = 2 THEN [kind |-> "dict", val |-> {}]
       ELSE JsonMembers(SubSeq(t, 2, Len(t) - 1), 1, {})
  ELSE JsonRaises

\* the value a codec call has not produced
NoValue == [kind |-> "none", val |-> <<>>]

\* str.maketrans raises ValueError in encrypt_webhook_key and in
\* decrypt_webhook_key (there before the try): the two parts of the derived
\* alphabet together are not as long as the 52 letters
MaketransRaises(env) ==
  LET alphabet == generate_cipher_alphabet(env.JIVAS_WEBHOOK_SECRET_KEY)
  IN Len(alphabet[1] \o alphabet[2]) # Len(ascii_letters)

\* encrypt_webhook_key: the key, or the exception that leaves it
encrypt_webhook_key(env, agent_id, module_root, walker) ==
  LET alphabet == generate_cipher_alphabet(env.JIVAS_WEBHOOK_SECRET_KEY)
      key_text == json_dumps(agent_id, module_root, walker)
  IN IF MaketransRaises(env) THEN [exc |-> "ValueError", out |-> <<>>]
     ELSE LET table == maketrans(ascii_letters, alphabet[1] \o alphabet[2])
          IN [exc |-> "none", out |-> quote(translate(key_text, table))]

\* decrypt_webhook_key, of the key as a str: what json.loads returns, {}
\* when it raises, or the exception that leaves it
decrypt_webhook_key_str(env, key) ==
  LET alphabet == generate_cipher_alphabet(env.JIVAS_WEBHOOK_SECRET_KEY)
  IN IF MaketransRaises(env) THEN [exc |-> "ValueError", out |-> NoValue]
     ELSE LET table == maketrans(alphabet[1] \o alphabet[2], ascii_letters)
              value == json_loads(translate(unquote(key), table))
          IN [exc |-> "none",
              out |-> IF value.kind = "raise" THEN [kind |-> "dict", val |-> {}]
                      ELSE value]

\* the secrets of the gateway's environments: the default, and one with a
\* letter beyond a-z / A-Z
Secrets == {DefaultSecret, <<e_acute>>}

\* the secrets the codec is called under: of non-letters, repeated letters,
\* letters in both cases, letters beyond a-z / A-Z, and the empty secret
SecretChars == {"a", "A", "b", "z", "1", e_acute}
CodecSecrets ==
  {DefaultSecret} \cup UNION {[1..k -> SecretChars] : k \in 0..MaxSecretLen}

\* the field values keys are issued for, and the strings decoded as keys
FieldTexts == {<<"b">>, <<"z", "1">>}
KeyChars == {"{", "}", "\"", "0", "1", "e", "N", "a"}
KeyTexts == UNION {[1..k -> KeyChars] : k \in 0..MaxKeyLen}

\* the codec call made last: the function, the secret and the fields a key
\* was issued under and for, the key, and what the call returned or raised
NoCodec ==
  [op |-> "none", secret |-> <<>>, fields |-> <<>>, issued |-> FALSE,
   key |-> <<>>, exc |-> "none", out |-> NoValue]

\* ------------------------------------------------ webhook key: decoding
\* decrypt_webhook_key: json.loads of the decoded text, {} when it raises
decrypt_webhook_key(key) == IF key.kind = "unparseable" THEN EmptyDict ELSE key

\* bool(args) of the decoded value
ArgsTruthy(a) ==
  CASE a.kind = "dict" ->
         a.agent_id # "missing" \/ a.module_root # "missing" \/ a.walker # "missing"
    [] a.kind = "scalar" -> TRUE
    [] OTHER -> FALSE

\* webhook_exec from "decode the arguments" to its first await
WebhookDecode(rec, e, t, env) ==
  LET args == decrypt_webhook_key(rec.key) IN
  CASE MaketransRaises(env) -> Raise(rec, "ValueError")
    [] ~ArgsTruthy(args) -> Return(rec)
    [] args.kind # "dict" -> Raise(rec, NoGet)
    [] args.agent_id # "set" \/ args.walker # "set" \/ args.module_root # "set" -> Return(rec)
    [] OTHER -> CredEnter(rec, e, t, env)

\* action_walker_exec without "not module_root" in its if: C10 must tell it
\* from the code
ActionValidate_ModuleRootUnchecked(rec, e, t, env) ==
  IF rec.form.agent_id = "" \/ rec.form.walker = ""
  THEN Return([rec EXCEPT !.response = JSONResponse(401, "missing required parameters")])
  ELSE CredEnter(rec, e, t, env)

\* action_walker_exec: if not agent_id or not walker or not module_root
ActionValidate(rec, e, t, env) ==
  IF rec.form.agent_id = "" \/ rec.form.walker = "" \/ rec.form.module_root = ""
  THEN Return([rec EXCEPT !.response = JSONResponse(401, "missing required parameters")])
  ELSE CredEnter(rec, e, t, env)

\* action_walker_exec with json.loads(args) failing silently: C11 must tell
\* it from the code
ActionAssemble_ArgsIgnored(rec, e, t, env) ==
  CASE rec.form.attachments # "none" -> [rec EXCEPT !.pc = "files"]
    [] OTHER -> ActionValidate(rec, e, t, env)

\* action_walker_exec from its first line to its first await
ActionAssemble(rec, e, t, env) ==
  CASE rec.form.args \in {"invalid", "notdict"} ->
         Return([rec EXCEPT !.response = JSONResponse(500, "internal server error")])
    [] rec.form.attachments # "none" -> [rec EXCEPT !.pc = "files"]
    [] OTHER -> ActionValidate(rec, e, t, env)

\* ------------------------------------------------------- file interface
\* A filename is the sequence of its components ("a/b.txt" is <<"a",
\* "b.txt">>); a node of the disk is a path below the root directory, <<>>
\* being the root directory itself.
Names == {<<"a">>, <<"a", "b.txt">>, <<"c.txt">>}
Nodes == Names \cup {<<>>}
Contents == {"b'x'", "b'y'"}

\* os.path.dirname of a joined path, as a node
dirname(n) == SubSeq(n, 1, Len(n) - 1)

\* node m is n or lies above it
IsPrefix(m, n) == Len(m) <= Len(n) /\ SubSeq(n, 1, Len(m)) = m

\* a disk with nothing below the root directory; root is "dir" or "absent"
EmptyDisk(root) == [n \in Nodes |-> IF n = <<>> THEN root ELSE "absent"]
EmptyBucket == [n \in Names |-> "None"]

\* os.path.exists(os.path.join(root_dir, filename))
exists(disk, n) == disk[n] # "absent"

\* os.makedirs(os.path.dirname(file_path), exist_ok=True): the exception it
\* raises, and the disk it leaves.  The argument is the empty string when
\* the root directory is "" and the filename has no directory part.
makedirs(disk, root_dir, d) ==
  IF root_dir = "" /\ d = <<>> THEN [exc |-> "FileNotFoundError", disk |-> disk]
  ELSE IF disk[d] = "dir" THEN [exc |-> "none", disk |-> disk]
  ELSE IF disk[d] # "absent" THEN [exc |-> "FileExistsError", disk |-> disk]
  ELSE IF \E m \in Nodes : IsPrefix(m, d) /\ disk[m] \notin {"dir", "absent"}
  THEN [exc |-> "NotADirectoryError", disk |-> disk]
  ELSE [exc |-> "none",
        disk |-> [n \in Nodes |-> IF IsPrefix(n, d) THEN "dir" ELSE disk[n]]]

\* what a call of the file interface gives: the exception that leaves it or
\* the value it returns, and the disk or the bucket as it leaves them
FileResult(exc, out, left) == [exc |-> exc, out |-> out, store |-> left]

\* LocalFileInterface.get_file; fault: the operating system refuses the open
LocalGetFile(disk, root_dir, n, fault) ==
  IF exists(disk, n)
  THEN IF disk[n] = "dir" THEN FileResult("IsADirectoryError", "none", disk)
       ELSE IF fault THEN FileResult("PermissionError", "none", disk)
       ELSE FileResult("none", disk[n], disk)
  ELSE FileResult("none", "None", disk)

\* LocalFileInterface.save_file
LocalSaveFile(disk, root_dir, n, content, fault) ==
  LET made == makedirs(disk, root_dir, dirname(n)) IN
  IF made.exc # "none" THEN FileResult(made.exc, "none", made.disk)
  ELSE IF made.disk[n] = "dir" THEN FileResult("IsADirectoryError", "none", made.disk)
  ELSE IF fault THEN FileResult("PermissionError", "none", made.disk)
  ELSE FileResult("none", "True", [made.disk EXCEPT ![n] = content])

\* LocalFileInterface.delete_file
LocalDeleteFile(disk, root_dir, n, fault) ==
  IF exists(disk, n)
  THEN IF disk[n] = "dir" THEN FileResult("IsADirectoryError", "none", disk)
       ELSE IF fault THEN FileResult("PermissionError", "none", disk)
       ELSE FileResult("none", "True", [disk EXCEPT ![n] = "absent"])
  ELSE FileResult("none", "False", disk)

\* LocalFileInterface.get_file_url
LocalGetFileUrl(disk, root_dir, n) ==
  IF exists(disk, n) THEN FileResult("none", "url", disk)
  ELSE FileResult("none", "None", disk)

\* S3FileInterface.get_file with the try left out: C22 must tell it from
\* the code
S3GetFile_Uncaught(bucket, n, fault) ==
  IF fault THEN FileResult("ClientError", "none", bucket)
  ELSE IF bucket[n] = "None" THEN FileResult("NoSuchKey", "none", bucket)
  ELSE FileResult("none", bucket[n], bucket)

\* S3FileInterface.get_file; fault: the object store raises.  get_object
\* raises NoSuchKey for a key that is not there.
S3GetFile(bucket, n, fault) ==
  IF fault \/ bucket[n] = "None" THEN FileResult("none", "None", bucket)
  ELSE FileResult("none", bucket[n], bucket)

\* S3FileInterface.save_file
S3SaveFile(bucket, n, content, fault) ==
  IF fault THEN FileResult("none", "False", bucket)
  ELSE FileResult("none", "True", [bucket EXCEPT ![n] = content])

\* S3FileInterface.delete_file: delete_object succeeds for a key that is
\* not there
S3DeleteFile(bucket, n, fault) ==
  IF fault THEN FileResult("none", "False", bucket)
  ELSE FileResult("none", "True", [bucket EXCEPT ![n] = "None"])

\* S3FileInterface.get_file_url: the URL is signed without asking the store
S3GetFileUrl(bucket, n, fault) ==
  IF fault THEN FileResult("none", "None", bucket)
  ELSE FileResult("none", "url", bucket)

\* the call of the file interface made last: was is what the last
\* save_file or delete_file of that name that returned True left there
NoFileCall ==
  [op |-> "none", filename |-> <<>>, content |-> "None", fault |-> FALSE,
   was |-> "None", exc |-> "none", out |-> "none"]

\* the interface module in a process that never imported it
NoFiles ==
  [FILE_INTERFACE |-> "none", root_dir |-> "", disk |-> EmptyDisk("dir"),
   bucket |-> EmptyBucket, saved |-> EmptyBucket, call |-> NoFileCall]

\* ------------------------------------------------------------------ Init
Init ==
  /\ ROOT_ID = Unset
  /\ TOKEN = Unset
  /\ EXPIRATION = EmptyStr
  /\ now = 0
  /\ environ \in [JIVAS_USER : BOOLEAN, JIVAS_PASSWORD : BOOLEAN,
                  JIVAS_WEBHOOK_SECRET_KEY : Secrets]
  /\ procs = [p \in Callers |-> IdleProc]
  /\ loop = 0
  /\ overlap = FALSE
  /\ last = NoLast
  /\ seen = NoSeen
  /\ JASECI_CONTEXT = [p \in Callers |-> 0]
  /\ ctxs = <<>>
  /\ store \in {0, 1}
  /\ codec = NoCodec
  /\ files = NoFiles
  /\ admin = NoAdmin

\* time.time() advances
Tick ==
  /\ now < MaxTime
  /\ now' = now + 1
  /\ UNCHANGED <<cred, environ, overlap, procs, loop, last, seen, runtime, codec, files, admin>>

\* the event loop runs one task at a time, and a task keeps the loop until
\* it awaits or ends
Holds(rec) == IsTask(rec) /\ rec.pc \notin AwaitPcs \cup {"idle", "done"}

\* caller p goes on with locals rec; a call that ended is kept in last
Set(p, rec) ==
  /\ IF rec.pc = "done"
     THEN /\ procs' = [procs EXCEPT ![p] = IdleProc]
          /\ last' = [caller |-> p, call |-> rec]
     ELSE /\ procs' = [procs EXCEPT ![p] = rec]
          /\ last' = last
  /\ loop' = IF Holds(rec) THEN p ELSE IF loop = p THEN 0 ELSE loop

\* the caller took what the call returned (or the exception it raised)
ResultTaken ==
  /\ last # NoLast
  /\ last' = NoLast
  /\ UNCHANGED <<cred, fixed, procs, loop, runtime>>

\* caller p may begin a call: it is in none, the call before has been
\* taken, and calls overlap or no other caller is in one
Idle(p) ==
  /\ procs[p].pc = "idle"
  /\ last = NoLast
  /\ overlap \/ \A q \in DOMAIN procs : procs[q].pc = "idle"

\* the event loop is free for task p
LoopFree(p) == loop \in {0, p}

\* caller p is at pc, and is a thread or the task the loop can run
At(p, pc) == procs[p].pc = pc /\ (IsTask(procs[p]) => LoopFree(p))

\* the class attributes, as the dict the cache-hit branch builds
Cached == [root_id |-> ROOT_ID, token |-> TOKEN, expiration |-> EXPIRATION]

\* the locals of a call of op that begins now; what the class attributes
\* were before it is kept where calls run one after the other (with calls
\* overlapping, another call's writes fall between a call's own steps)
Begin(op) ==
  IF overlap THEN [IdleProc EXCEPT !.op = op]
  ELSE [IdleProc EXCEPT !.op = op, !.was = Cached, !.t0 = now]

\* ------------------------------------------------- the entry points
Call_get_user_context(p) ==
  /\ Idle(p)
  /\ Set(p, CredEnter(Begin("get_user_context"), EXPIRATION, now, environ))
  /\ UNCHANGED <<cred, fixed, runtime>>

Call_get_user_context_async(p) ==
  /\ Idle(p)
  /\ LoopFree(p)
  /\ Set(p, CredEnter(Begin("get_user_context_async"),
                      EXPIRATION, now, environ))
  /\ UNCHANGED <<cred, fixed, runtime>>

\* ctx = await AgentInterface.get_user_context_async()
Call_load_context_async(p) ==
  /\ Idle(p)
  /\ LoopFree(p)
  /\ Set(p, CredEnter(Begin("load_context_async"), EXPIRATION, now, environ))
  /\ UNCHANGED <<cred, fixed, runtime>>

\* webhook_exec(key, request): a POST awaits request.json() first
Call_webhook_exec(p) ==
  /\ Idle(p)
  /\ LoopFree(p)
  /\ \E key \in Keys, method \in {"GET", "POST"} :
       LET rec == [Begin("webhook_exec") EXCEPT !.key = key, !.params = "query",
                                   !.response = JSONResponse(200, "200 OK")]
       IN IF method = "POST"
          THEN Set(p, [rec EXCEPT !.pc = "body"])
          ELSE Set(p, WebhookDecode(rec, EXPIRATION, now, environ))
  /\ UNCHANGED <<cred, fixed, runtime>>

\* params = await request.json(), or the warning when it raises
WebhookBody(p) ==
  /\ At(p, "body")
  /\ \E params \in {"query", "body"} :
       Set(p, WebhookDecode([procs[p] EXCEPT !.params = params], EXPIRATION, now, environ))
  /\ UNCHANGED <<cred, fixed, runtime>>

\* the route registered without dependencies: C27 must tell it from the code
Authenticated_NoDependencies(route) == FALSE

\* add_api_route(..., dependencies=authenticator): the routes of jvserve
\* that stand behind the authenticator
Authenticated(route) == route = "/action/walker"

\* POST /action/walker, with a bearer credential or with none: the
\* authenticator answers 403 to a request without one, and otherwise
\* action_walker_exec(request, agent_id, module_root, walker, args,
\* attachments) runs
Call_action_walker_exec(p) ==
  /\ Idle(p)
  /\ LoopFree(p)
  /\ \E form \in Forms, bearer \in {"none", "valid"} :
       IF Authenticated("/action/walker") /\ bearer = "none"
       THEN Set(p, Return([Begin("authenticator") EXCEPT
                      !.response = JSONResponse(403, "Not authenticated")]))
       ELSE Set(p, ActionAssemble(
                [Begin("action_walker_exec") EXCEPT !.form = form, !.bearer = bearer,
                   !.response = JSONResponse(500, "unable to complete request")],
                EXPIRATION, now, environ))
  /\ UNCHANGED <<cred, fixed, runtime>>

\* "content": await file.read(), for each attachment
ActionFiles(p) ==
  /\ At(p, "files")
  /\ IF procs[p].form.attachments = "fail"
     THEN Set(p, Return([procs[p] EXCEPT
                 !.response = JSONResponse(500, "internal server error")]))
     ELSE Set(p, ActionValidate(procs[p], EXPIRATION, now, environ))
  /\ UNCHANGED <<cred, fixed, runtime>>

\* interact(payload): ctx = AgentInterface.load_context()
Call_interact(p) ==
  /\ Idle(p)
  /\ Set(p, [Begin("interact") EXCEPT !.pc = "jctx"])
  /\ UNCHANGED <<cred, fixed, runtime>>

\* ----------------------------------------- get_user_context: the flow
\* the cache-hit branch builds and returns the dict
CacheHitReturn(p) ==
  /\ At(p, "hit")
  /\ Set(p, CredReturn(procs[p], Cached))
  /\ UNCHANGED <<cred, fixed, runtime>>

\* except Exception: AgentInterface.EXPIRATION = ""; ...; return ctx
Handler(p, rec) ==
  /\ EXPIRATION' = EmptyStr
  /\ Set(p, CredReturn([rec EXCEPT !.caught = TRUE], rec.ctx))
  /\ UNCHANGED <<ROOT_ID, TOKEN>>

\* ctx["root_id"] = AgentInterface.ROOT_ID = body["user"]["root_id"]
WriteRootId(p, rec, body) ==
  IF body.shape = "noUser"
  THEN Handler(p, [rec EXCEPT !.resp = body, !.outs = Append(@, "200")])
  ELSE /\ ROOT_ID' = body.rid
       /\ Set(p, [rec EXCEPT !.pc = "w_token", !.resp = body, !.outs = Append(@, "200"),
                             !.ctx.root_id = body.rid])
       /\ UNCHANGED <<TOKEN, EXPIRATION>>

\* the first login's response arrives
LoginResponse(p) ==
  /\ At(p, "login")
  /\ UNCHANGED <<fixed, runtime>>
  /\ \/ \* transport fault
        Handler(p, [procs[p] EXCEPT !.outs = Append(@, "fault")])
     \/ \* non-200: post(register_url, ...)
        /\ Set(p, [procs[p] EXCEPT !.pc = "register", !.calls = Append(@, "register"),
                                   !.outs = Append(@, "fail")])
        /\ UNCHANGED cred
     \/ \* 200
        \E body \in LoginBodies(now) :
          IF IsTask(procs[p])
          THEN /\ Set(p, [procs[p] EXCEPT !.pc = "json", !.resp = body])
               /\ UNCHANGED cred
          ELSE WriteRootId(p, procs[p], body)

\* data = await response.json()
LoginJson(p) ==
  /\ At(p, "json")
  /\ UNCHANGED <<fixed, runtime>>
  /\ \/ Handler(p, [procs[p] EXCEPT !.outs = Append(@, "fault")])
     \/ WriteRootId(p, procs[p], procs[p].resp)

\* ctx["token"] = AgentInterface.TOKEN = body["token"]
WriteToken(p) ==
  /\ At(p, "w_token")
  /\ UNCHANGED <<fixed, runtime>>
  /\ IF procs[p].resp.shape = "noToken"
     THEN Handler(p, procs[p])
     ELSE /\ TOKEN' = procs[p].resp.rid
          /\ Set(p, [procs[p] EXCEPT !.pc = "w_exp", !.ctx.token = procs[p].resp.rid])
          /\ UNCHANGED <<ROOT_ID, EXPIRATION>>

\* ctx["expiration"] = AgentInterface.EXPIRATION = body["user"]["expiration"]
WriteExpiration(p) ==
  /\ At(p, "w_exp")
  /\ UNCHANGED <<fixed, runtime>>
  /\ IF procs[p].resp.shape = "noExp"
     THEN Handler(p, procs[p])
     ELSE /\ EXPIRATION' = procs[p].resp.expiration
          /\ Set(p, CredReturn(procs[p],
                [procs[p].ctx EXCEPT !.expiration = procs[p].resp.expiration]))
          /\ UNCHANGED <<ROOT_ID, TOKEN>>

\* the register response, with the retry login made whatever the status is:
\* C13 must tell it from the code
RegisterResponse_RetryAnyway(p) ==
  /\ At(p, "register")
  /\ UNCHANGED <<fixed, runtime>>
  /\ \/ Handler(p, [procs[p] EXCEPT !.outs = Append(@, "fault")])
     \/ \E out \in {"201", "fail"} :
          /\ Set(p, [procs[p] EXCEPT !.pc = "relogin", !.calls = Append(@, "login"),
                                     !.outs = Append(@, out)])
          /\ UNCHANGED cred

\* the register response arrives
RegisterResponse(p) ==
  /\ At(p, "register")
  /\ UNCHANGED <<fixed, runtime>>
  /\ \/ Handler(p, [procs[p] EXCEPT !.outs = Append(@, "fault")])
     \/ \* 201: post(login_url, ...) again
        /\ Set(p, [procs[p] EXCEPT !.pc = "relogin", !.calls = Append(@, "login"),
                                   !.outs = Append(@, "201")])
        /\ UNCHANGED cred
     \/ \* non-201: logged, return ctx
        /\ Set(p, CredReturn([procs[p] EXCEPT !.outs = Append(@, "fail")], procs[p].ctx))
        /\ UNCHANGED cred

\* the retry login tried once more after a non-200: C28 must tell it from
\* the code
RetryLoginResponse_RetryAgain(p) ==
  /\ At(p, "relogin")
  /\ UNCHANGED <<fixed, runtime>>
  /\ \/ Handler(p, [procs[p] EXCEPT !.outs = Append(@, "fault")])
     \/ /\ Len(procs[p].calls) < 4
        /\ Set(p, [procs[p] EXCEPT !.calls = Append(@, "login"), !.outs = Append(@, "fail")])
        /\ UNCHANGED cred

\* the retry login's response arrives
RetryLoginResponse(p) ==
  /\ At(p, "relogin")
  /\ UNCHANGED <<fixed, runtime>>
  /\ \/ Handler(p, [procs[p] EXCEPT !.outs = Append(@, "fault")])
     \/ \* non-200: logged, return ctx
        /\ Set(p, CredReturn([procs[p] EXCEPT !.outs = Append(@, "fail")], procs[p].ctx))
        /\ UNCHANGED cred
     \/ \* 200
        \E body \in LoginBodies(now) :
          IF IsTask(procs[p])
          THEN /\ Set(p, [procs[p] EXCEPT !.pc = "rejson", !.resp = body])
               /\ UNCHANGED cred
          ELSE \* the log line formats ctx['root_id'] of the empty dict: KeyError
               Handler(p, [procs[p] EXCEPT !.resp = body, !.outs = Append(@, "200")])

\* data = await login_response.json(); ctx[...] = data[...]: the coroutine
\* fills the local dict only
RetryLoginJson(p) ==
  /\ At(p, "rejson")
  /\ UNCHANGED <<fixed, runtime>>
  /\ LET rec == procs[p]
         body == rec.resp
         c1 == [rec.ctx EXCEPT !.root_id = body.rid]
         c2 == [c1 EXCEPT !.token = body.rid]
         c3 == [c2 EXCEPT !.expiration = body.expiration]
         got == [rec EXCEPT !.outs = Append(@, "200")]
     IN \/ Handler(p, [rec EXCEPT !.outs = Append(@, "fault")])
        \/ CASE body.shape = "noUser" -> Handler(p, got)
             [] body.shape = "noToken" -> Handler(p, [got EXCEPT !.ctx = c1])
             [] body.shape = "noExp" -> Handler(p, [got EXCEPT !.ctx = c2])
             [] OTHER ->
                  /\ Set(p, CredReturn(got, c3))
                  /\ UNCHANGED cred

\* ------------------------------------------- api_interact, api_pulse
Call_api_interact(p) ==
  /\ Idle(p)
  /\ Set(p, CredEnter(Begin("api_interact"), EXPIRATION, now, environ))
  /\ UNCHANGED <<cred, fixed, runtime>>

Call_api_pulse(p) ==
  /\ Idle(p)
  /\ Set(p, CredEnter(Begin("api_pulse"), EXPIRATION, now, environ))
  /\ UNCHANGED <<cred, fixed, runtime>>

\* api_interact: if ctx["token"]; api_pulse: if AgentInterface.TOKEN; then
\* requests.post(endpoint, ...), else return {}
ApiToken(p) ==
  /\ At(p, "api_token")
  /\ UNCHANGED <<cred, fixed, runtime>>
  /\ LET rec == [procs[p] EXCEPT !.ctx = EmptyCtx]
         token == IF rec.op = "api_interact" THEN procs[p].ctx.token ELSE TOKEN
     IN CASE token = Missing -> Set(p, Raise(rec, "KeyError"))
          [] token = Unset -> Set(p, Return([rec EXCEPT !.response = Raw("{}")]))
          [] OTHER -> Set(p, [rec EXCEPT !.pc = "api_post", !.calls = Append(@, "walker")])

\* the 401 branch without its assignment: C16 must tell it from the code
ApiPost_401Kept(p) ==
  /\ At(p, "api_post")
  /\ UNCHANGED <<ROOT_ID, TOKEN, EXPIRATION, fixed, runtime>>
  /\ Set(p, Return([procs[p] EXCEPT !.outs = Append(@, "401"), !.response = Raw("{}")]))

\* the walker endpoint's response arrives
ApiPost(p) ==
  /\ At(p, "api_post")
  /\ UNCHANGED <<ROOT_ID, TOKEN, fixed, runtime>>
  /\ \/ \* 200 and a body with reports
        /\ Set(p, Return([procs[p] EXCEPT !.outs = Append(@, "200"),
                                          !.response = Raw("reports")]))
        /\ UNCHANGED EXPIRATION
     \/ \* 200 and a JSON object without reports: result["reports"] raises
        \* KeyError in api_interact, result.get("reports", {}) is {} in api_pulse
        /\ Set(p, Return([procs[p] EXCEPT !.outs = Append(@, "200"),
                                          !.caught = (procs[p].op = "api_interact"),
                                          !.response = Raw("{}")]))
        /\ EXPIRATION' = IF procs[p].op = "api_interact" THEN EmptyStr ELSE EXPIRATION
     \/ \* 401
        /\ Set(p, Return([procs[p] EXCEPT !.outs = Append(@, "401"), !.response = Raw("{}")]))
        /\ EXPIRATION' = EmptyStr
     \/ \* another status
        /\ Set(p, Return([procs[p] EXCEPT !.outs = Append(@, "fail"), !.response = Raw("{}")]))
        /\ UNCHANGED EXPIRATION
     \/ \* a transport fault, or a 200 whose body is no JSON object: except
        /\ Set(p, Return([procs[p] EXCEPT !.outs = Append(@, "fault"), !.caught = TRUE,
                                          !.response = Raw("{}")]))
        /\ EXPIRATION' = EmptyStr

\* ------------------------------------------------- load_context_async
\* if ctx: AgentInterface.ROOT_ID = ctx["root_id"]
LoadContextRootId(p) ==
  /\ At(p, "lc_root")
  /\ UNCHANGED <<fixed, runtime>>
  /\ IF procs[p].ctx.root_id = Missing
     THEN Set(p, Raise(procs[p], "KeyError")) /\ UNCHANGED cred
     ELSE /\ ROOT_ID' = procs[p].ctx.root_id
          /\ Set(p, [procs[p] EXCEPT !.pc = "lc_token"])
          /\ UNCHANGED <<TOKEN, EXPIRATION>>

\* AgentInterface.TOKEN = ctx["token"]
LoadContextToken(p) ==
  /\ At(p, "lc_token")
  /\ UNCHANGED <<fixed, runtime>>
  /\ IF procs[p].ctx.token = Missing
     THEN Set(p, Raise(procs[p], "KeyError")) /\ UNCHANGED cred
     ELSE /\ TOKEN' = procs[p].ctx.token
          /\ Set(p, [procs[p] EXCEPT !.pc = "lc_exp"])
          /\ UNCHANGED <<ROOT_ID, EXPIRATION>>

\* AgentInterface.EXPIRATION = ctx["expiration"]
LoadContextExpiration(p) ==
  /\ At(p, "lc_exp")
  /\ UNCHANGED <<fixed, runtime>>
  /\ IF procs[p].ctx.expiration.t = "missing"
     THEN Set(p, Raise(procs[p], "KeyError")) /\ UNCHANGED cred
     ELSE /\ EXPIRATION' = procs[p].ctx.expiration
          /\ Set(p, [procs[p] EXCEPT !.pc = "jctx", !.ctx = EmptyCtx])
          /\ UNCHANGED <<ROOT_ID, TOKEN>>

\* ------------------------------------------------- get_jaseci_context
\* get_jaseci_context returned k (0: None) to the entry point
AfterContext(rec, k) ==
  CASE rec.op = "load_context_async" -> Return([rec EXCEPT !.xctx = k])
    [] rec.op = "interact" ->
         IF k = 0 THEN Return([rec EXCEPT !.response = Raw("{}")])
         ELSE [rec EXCEPT !.xctx = k, !.pc = "spawn"]
    [] OTHER ->
         \* webhook_exec, action_walker_exec: if ctx: ... else: log; ctx.close()
         IF k = 0 THEN Raise(rec, NoClose)
         ELSE [rec EXCEPT !.xctx = k, !.pc = "spawn"]

\* the bootstrap inserting a record whether or not one was found: C24 must
\* tell it from the code
SystemRootAfter_AlwaysInserted(n) == n + 1

\* if not isinstance(system_root := ctx.mem.find_by_id(SUPER_ROOT),
\* NodeAnchor): ... NodeAnchor.Collection.insert_one(...): the records the
\* collection holds after the bootstrap found n of them
SystemRootAfter(n) == IF n = 0 THEN 1 ELSE n

\* registering without closing the context registered before: C25 must tell
\* it from the code
Register_PreviousLeftOpen(p, k) ==
  /\ ctxs' = Append(ctxs, 0)
  /\ JASECI_CONTEXT' = [JASECI_CONTEXT EXCEPT ![p] = k]

\* the context registered before is closed, the new one registered
Register(p, k) ==
  /\ ctxs' = Append(IF JASECI_CONTEXT[p] # 0
                    THEN [ctxs EXCEPT ![JASECI_CONTEXT[p]] = @ + 1]
                    ELSE ctxs, 0)
  /\ JASECI_CONTEXT' = [JASECI_CONTEXT EXCEPT ![p] = k]

GetJaseciContext(p) ==
  /\ At(p, "jctx")
  /\ UNCHANGED <<cred, fixed>>
  /\ \/ \* JaseciContext() or ExecutionContext.get() raises: logged, return None
        /\ Set(p, AfterContext(procs[p], 0))
        /\ UNCHANGED runtime
     \/ \* the store raises (MongoDB(), find_by_id, insert_one): not caught
        /\ Set(p, Raise(procs[p], "StoreError"))
        /\ UNCHANGED runtime
     \/ \* the context is built; the system root is inserted if not found
        /\ Len(ctxs) < MaxCtx
        /\ store' = SystemRootAfter(store)
        /\ Register(p, Len(ctxs) + 1)
        /\ Set(p, AfterContext(procs[p], Len(ctxs) + 1))

\* ------------------------------------------------- invoking the runtime
\* webhook_exec merging the caller's query or body into the attributes
\* instead of nesting it under "params" (the caller's dict holds any key it
\* likes, reporting among them): C26 must tell it from the code
Attributes_ParamsMerged(rec) ==
  CASE rec.op = "webhook_exec" ->
         [walker |-> "key", agent_id |-> "key", reporting |-> "params"]
    [] rec.op = "interact" ->
         [walker |-> "interact", agent_id |-> "payload", reporting |-> "false"]
    [] OTHER ->
         [walker |-> "form",
          agent_id |-> IF rec.form.args = "dict_agent_id" THEN "args" ELSE "form",
          reporting |-> IF rec.form.args = "dict_reporting" THEN "false" ELSE "default"]

\* the attributes spawn_walker is given; reporting is "false" where the
\* gateway or the caller's args set it to False, "default" where nothing
\* sets it and the walker's own default stands
Attributes(rec) ==
  CASE rec.op = "webhook_exec" ->
         [walker |-> "key", agent_id |-> "key", reporting |-> "false"]
    [] rec.op = "interact" ->
         [walker |-> "interact", agent_id |-> "payload", reporting |-> "false"]
    [] OTHER ->
         [walker |-> "form",
          agent_id |-> IF rec.form.args = "dict_agent_id" THEN "args" ELSE "form",
          reporting |-> IF rec.form.args = "dict_reporting" THEN "false" ELSE "default"]

\* action_walker_exec without the assignment in its except clause: C29 must
\* tell it from the code
Outcome_ActionRaiseKept(rec, out) ==
  CASE rec.op = "webhook_exec" ->
         CASE out = "raise" -> <<rec.response, TRUE>>
           [] out = "falsy" -> <<Raw("falsy"), FALSE>>
           [] out = "badstr" -> <<Raw("badstr"), TRUE>>
           [] OTHER -> <<JSONResponse(200, "result"), FALSE>>
    [] rec.op = "interact" ->
         CASE out = "raise" -> <<Raw("{}"), TRUE>>
           [] out = "falsy" -> <<Raw("{}"), FALSE>>
           [] OTHER -> <<Raw(out), FALSE>>
    [] OTHER ->
         CASE out = "raise" -> <<rec.response, FALSE>>
           [] OTHER -> <<Raw(out), FALSE>>

\* what the entry point makes of the runtime's outcome: <<response, did an
\* except clause run>>
Outcome(rec, out) ==
  CASE rec.op = "webhook_exec" ->
         CASE out = "raise" -> <<rec.response, TRUE>>
           [] out = "falsy" -> <<Raw("falsy"), FALSE>>
           [] out = "badstr" -> <<Raw("badstr"), TRUE>>
           [] OTHER -> <<JSONResponse(200, "result"), FALSE>>
    [] rec.op = "interact" ->
         CASE out = "raise" -> <<Raw("{}"), TRUE>>
           [] out = "falsy" -> <<Raw("{}"), FALSE>>
           [] OTHER -> <<Raw(out), FALSE>>
    [] OTHER ->
         CASE out = "raise" -> <<rec.response, TRUE>>
           [] OTHER -> <<Raw(out), FALSE>>

\* _Jac.spawn_call(...), the except clause, ctx.close(), return response
SpawnCall(p) ==
  /\ At(p, "spawn")
  /\ UNCHANGED <<ROOT_ID, TOKEN, fixed, JASECI_CONTEXT, store>>
  /\ \E out \in RuntimeOutcomes :
       LET res == Outcome(procs[p], out) IN
       /\ EXPIRATION' = IF res[2] THEN EmptyStr ELSE EXPIRATION
       /\ ctxs' = [ctxs EXCEPT ![procs[p].xctx] = @ + 1]
       /\ Set(p, Return([procs[p] EXCEPT !.response = res[1], !.caught = res[2],
                                         !.invoked = Attributes(procs[p])]))

\* ------------------------------------------------------------ Next
Calls(p) ==
  \/ Call_get_user_context(p)
  \/ Call_get_user_context_async(p)
  \/ Call_load_context_async(p)
  \/ Call_webhook_exec(p)
  \/ Call_action_walker_exec(p)
  \/ Call_interact(p)
  \/ Call_api_interact(p)
  \/ Call_api_pulse(p)

CredSteps(p) ==
  \/ CacheHitReturn(p)
  \/ LoginResponse(p)
  \/ LoginJson(p)
  \/ WriteToken(p)
  \/ WriteExpiration(p)
  \/ RegisterResponse(p)
  \/ RetryLoginResponse(p)
  \/ RetryLoginJson(p)

GatewaySteps(p) ==
  \/ WebhookBody(p)
  \/ ActionFiles(p)
  \/ LoadContextRootId(p)
  \/ LoadContextToken(p)
  \/ LoadContextExpiration(p)
  \/ GetJaseciContext(p)
  \/ SpawnCall(p)
  \/ ApiToken(p)
  \/ ApiPost(p)

Next ==
  \/ Tick
  \/ ResultTaken
  \/ \E p \in Callers : Calls(p) \/ CredSteps(p) \/ GatewaySteps(p)

Spec == Init /\ [][Next]_vars

\* ------------------------------------------- overlapping acquisitions
\* threads in get_user_context and tasks in get_user_context_async,
\* interleaved as the interpreter and the event loop allow; no call waits
\* for another
InitConc ==
  /\ ROOT_ID = Unset
  /\ TOKEN = Unset
  /\ EXPIRATION = EmptyStr
  /\ now = 0
  /\ environ = [JIVAS_USER |-> TRUE, JIVAS_PASSWORD |-> TRUE,
                JIVAS_WEBHOOK_SECRET_KEY |-> DefaultSecret]
  /\ procs = [p \in ConcCallers |-> IdleProc]
  /\ loop = 0
  /\ overlap = TRUE
  /\ last = NoLast
  /\ seen = NoSeen
  /\ JASECI_CONTEXT = [p \in ConcCallers |-> 0]
  /\ ctxs = <<>>
  /\ store = 0
  /\ codec = NoCodec
  /\ files = NoFiles
  /\ admin = NoAdmin

CredCalls(p) ==
  \/ Call_get_user_context(p)
  \/ Call_get_user_context_async(p)

NextConc ==
  \/ Tick
  \/ ResultTaken
  \/ \E p \in ConcCallers : CredCalls(p) \/ CredSteps(p)

SpecConc == InitConc /\ [][NextConc]_vars

\* ------------------------------------------- the two variants, compared
\* a finished call of the blocking variant is kept, to compare a later call
\* of the coroutine variant with
Remember ==
  /\ last # NoLast
  /\ last.call.op = "get_user_context"
  /\ seen' = [call |-> last.call, left |-> Cached]
  /\ last' = NoLast
  /\ UNCHANGED <<cred, now, environ, overlap, procs, loop, runtime, codec, files, admin>>

InitPair ==
  /\ ROOT_ID = Unset
  /\ TOKEN = Unset
  /\ EXPIRATION = EmptyStr
  /\ now = 0
  /\ environ \in [JIVAS_USER : BOOLEAN, JIVAS_PASSWORD : BOOLEAN,
                  JIVAS_WEBHOOK_SECRET_KEY : {DefaultSecret}]
  /\ procs = [p \in Callers |-> IdleProc]
  /\ loop = 0
  /\ overlap = FALSE
  /\ last = NoLast
  /\ seen = NoSeen
  /\ JASECI_CONTEXT = [p \in Callers |-> 0]
  /\ ctxs = <<>>
  /\ store = 0
  /\ codec = NoCodec
  /\ files = NoFiles
  /\ admin = NoAdmin

NextPair ==
  \/ Tick
  \/ ResultTaken
  \/ Remember
  \/ \E p \in Callers : CredCalls(p) \/ CredSteps(p)

SpecPair == InitPair /\ [][NextPair]_vars

\* ------------------------------------------------ the key codec, called
\* encrypt_webhook_key, called under the secret the environment holds
Call_encrypt_webhook_key ==
  /\ codec.op = "none"
  /\ \E a \in FieldTexts, m \in FieldTexts, w \in FieldTexts :
       LET r == encrypt_webhook_key(environ, a, m, w) IN
       codec' = [op |-> "encrypt_webhook_key",
                 secret |-> environ.JIVAS_WEBHOOK_SECRET_KEY,
                 fields |-> <<a, m, w>>, issued |-> r.exc = "none",
                 key |-> r.out, exc |-> r.exc, out |-> NoValue]
  /\ UNCHANGED <<cred, now, environ, overlap, seen, procs, loop, last, runtime, files, admin>>

\* decrypt_webhook_key, called with a string of the caller's choice
Call_decrypt_webhook_key ==
  /\ codec.op = "none"
  /\ \E key \in KeyTexts :
       LET r == decrypt_webhook_key_str(environ, key) IN
       codec' = [NoCodec EXCEPT !.op = "decrypt_webhook_key", !.key = key,
                                !.exc = r.exc, !.out = r.out]
  /\ UNCHANGED <<cred, now, environ, overlap, seen, procs, loop, last, runtime, files, admin>>

\* decrypt_webhook_key, called with the key encrypt_webhook_key issued last,
\* under the secret the environment holds by now
DecryptIssued ==
  /\ codec.op = "encrypt_webhook_key"
  /\ codec.issued
  /\ LET r == decrypt_webhook_key_str(environ, codec.key) IN
     codec' = [codec EXCEPT !.op = "decrypt_webhook_key", !.exc = r.exc, !.out = r.out]
  /\ UNCHANGED <<cred, now, environ, overlap, seen, procs, loop, last, runtime, files, admin>>

\* the gateway is started anew with another JIVAS_WEBHOOK_SECRET_KEY
RotateSecret ==
  /\ codec.op \in {"none", "encrypt_webhook_key"}
  /\ \E s \in CodecSecrets \ {environ.JIVAS_WEBHOOK_SECRET_KEY} :
       environ' = [environ EXCEPT !.JIVAS_WEBHOOK_SECRET_KEY = s]
  /\ UNCHANGED <<cred, now, overlap, seen, procs, loop, last, runtime, codec, files, admin>>

\* the caller took what the codec returned (or the exception it raised)
CodecTaken ==
  /\ codec.op # "none"
  /\ codec' = NoCodec
  /\ UNCHANGED <<cred, now, environ, overlap, seen, procs, loop, last, runtime, files, admin>>

InitCipher ==
  /\ ROOT_ID = Unset
  /\ TOKEN = Unset
  /\ EXPIRATION = EmptyStr
  /\ now = 0
  /\ environ \in [JIVAS_USER : {TRUE}, JIVAS_PASSWORD : {TRUE},
                  JIVAS_WEBHOOK_SECRET_KEY : CodecSecrets]
  /\ procs = [p \in Callers |-> IdleProc]
  /\ loop = 0
  /\ overlap = FALSE
  /\ last = NoLast
  /\ seen = NoSeen
  /\ JASECI_CONTEXT = [p \in Callers |-> 0]
  /\ ctxs = <<>>
  /\ store = 0
  /\ codec = NoCodec
  /\ files = NoFiles
  /\ admin = NoAdmin

NextCipher ==
  \/ Call_encrypt_webhook_key
  \/ Call_decrypt_webhook_key
  \/ DecryptIssued
  \/ RotateSecret
  \/ CodecTaken

SpecCipher == InitCipher /\ [][NextCipher]_vars

\* ------------------------------------------------ the file interface, called
\* the record of a call, and the names as the calls that returned True left
\* them
FileCalled(op, n, content, fault, r) ==
  [op |-> op, filename |-> n, content |-> content, fault |-> fault,
   was |-> files.saved[n], exc |-> r.exc, out |-> r.out]
SavedAfter(op, n, content, r) ==
  IF r.out # "True" THEN files.saved
  ELSE [files.saved EXCEPT ![n] = IF op = "save_file" THEN content ELSE "None"]

Local_get_file ==
  /\ files.FILE_INTERFACE = "local"
  /\ \E n \in Names, fault \in BOOLEAN :
       LET r == LocalGetFile(files.disk, files.root_dir, n, fault) IN
       files' = [files EXCEPT !.disk = r.store,
                              !.call = FileCalled("get_file", n, "None", fault, r)]
  /\ UNCHANGED <<cred, now, environ, overlap, seen, procs, loop, last, runtime, codec, admin>>

Local_save_file ==
  /\ files.FILE_INTERFACE = "local"
  /\ \E n \in Names, content \in Contents, fault \in BOOLEAN :
       LET r == LocalSaveFile(files.disk, files.root_dir, n, content, fault) IN
       files' = [files EXCEPT !.disk = r.store,
                              !.saved = SavedAfter("save_file", n, content, r),
                              !.call = FileCalled("save_file", n, content, fault, r)]
  /\ UNCHANGED <<cred, now, environ, overlap, seen, procs, loop, last, runtime, codec, admin>>

Local_delete_file ==
  /\ files.FILE_INTERFACE = "local"
  /\ \E n \in Names, fault \in BOOLEAN :
       LET r == LocalDeleteFile(files.disk, files.root_dir, n, fault) IN
       files' = [files EXCEPT !.disk = r.store,
                              !.saved = SavedAfter("delete_file", n, "None", r),
                              !.call = FileCalled("delete_file", n, "None", fault, r)]
  /\ UNCHANGED <<cred, now, environ, overlap, seen, procs, loop, last, runtime, codec, admin>>

Local_get_file_url ==
  /\ files.FILE_INTERFACE = "local"
  /\ \E n \in Names :
       LET r == LocalGetFileUrl(files.disk, files.root_dir, n) IN
       files' = [files EXCEPT !.disk = r.store,
                              !.call = FileCalled("get_file_url", n, "None", FALSE, r)]
  /\ UNCHANGED <<cred, now, environ, overlap, seen, procs, loop, last, runtime, codec, admin>>

S3_get_file ==
  /\ files.FILE_INTERFACE = "s3"
  /\ \E n \in Names, fault \in BOOLEAN :
       LET r == S3GetFile(files.bucket, n, fault) IN
       files' = [files EXCEPT !.bucket = r.store,
                              !.call = FileCalled("get_file", n, "None", fault, r)]
  /\ UNCHANGED <<cred, now, environ, overlap, seen, procs, loop, last, runtime, codec, admin>>

S3_save_file ==
  /\ files.FILE_INTERFACE = "s3"
  /\ \E n \in Names, content \in Contents, fault \in BOOLEAN :
       LET r == S3SaveFile(files.bucket, n, content, fault) IN
       files' = [files EXCEPT !.bucket = r.store,
                              !.saved = SavedAfter("save_file", n, content, r),
                              !.call = FileCalled("save_file", n, content, fault, r)]
  /\ UNCHANGED <<cred, now, environ, overlap, seen, procs, loop, last, runtime, codec, admin>>

S3_delete_file ==
  /\ files.FILE_INTERFACE = "s3"
  /\ \E n \in Names, fault \in BOOLEAN :
       LET r == S3DeleteFile(files.bucket, n, fault) IN
       files' = [files EXCEPT !.bucket = r.store,
                              !.saved = SavedAfter("delete_file", n, "None", r),
                              !.call = FileCalled("delete_file", n, "None", fault, r)]
  /\ UNCHANGED <<cred, now, environ, overlap, seen, procs, loop, last, runtime, codec, admin>>

S3_get_file_url ==
  /\ files.FILE_INTERFACE = "s3"
  /\ \E n \in Names, fault \in BOOLEAN :
       LET r == S3GetFileUrl(files.bucket, n, fault) IN
       files' = [files EXCEPT !.bucket = r.store,
                              !.call = FileCalled("get_file_url", n, "None", fault, r)]
  /\ UNCHANGED <<cred, now, environ, overlap, seen, procs, loop, last, runtime, codec, admin>>

\* the module is imported: JIVAS_FILE_INTERFACE chooses the class,
\* JIVAS_FILES_ROOT_PATH the root directory, which may not exist yet
InitFiles ==
  /\ ROOT_ID = Unset
  /\ TOKEN = Unset
  /\ EXPIRATION = EmptyStr
  /\ now = 0
  /\ environ = [JIVAS_USER |-> TRUE, JIVAS_PASSWORD |-> TRUE,
                JIVAS_WEBHOOK_SECRET_KEY |-> DefaultSecret]
  /\ procs = [p \in Callers |-> IdleProc]
  /\ loop = 0
  /\ overlap = FALSE
  /\ last = NoLast
  /\ seen = NoSeen
  /\ JASECI_CONTEXT = [p \in Callers |-> 0]
  /\ ctxs = <<>>
  /\ store = 0
  /\ codec = NoCodec
  /\ files \in
       {[NoFiles EXCEPT !.FILE_INTERFACE = "local", !.root_dir = "", !.disk = EmptyDisk("dir")],
        [NoFiles EXCEPT !.FILE_INTERFACE = "local", !.root_dir = ".files", !.disk = EmptyDisk("dir")],
        [NoFiles EXCEPT !.FILE_INTERFACE = "local", !.root_dir = ".files", !.disk = EmptyDisk("absent")],
        [NoFiles EXCEPT !.FILE_INTERFACE = "s3", !.root_dir = ".files"]}
  /\ admin = NoAdmin

NextFiles ==
  \/ Local_get_file
  \/ Local_save_file
  \/ Local_delete_file
  \/ Local_get_file_url
  \/ S3_get_file
  \/ S3_save_file
  \/ S3_delete_file
  \/ S3_get_file_url

SpecFiles == InitFiles /\ [][NextFiles]_vars

\* ------------------------------------------ create_system_admin: steps
\* create_system_admin() up to the while loop: the three getenv checks,
\* find_by_email, the session and the transaction
Call_create_system_admin ==
  /\ admin.pc = "idle"
  /\ \E DATABASE_HOST \in BOOLEAN, JIVAS_USER \in BOOLEAN, JIVAS_PASSWORD \in BOOLEAN :
       admin' =
         IF ~DATABASE_HOST \/ ~JIVAS_USER \/ ~JIVAS_PASSWORD
         THEN [admin EXCEPT !.pc = "done", !.exc = "NotImplementedError"]
         ELSE IF admin.users > 0
         THEN [admin EXCEPT !.pc = "done", !.found = TRUE,
                            !.ret = "User already exists!"]
         ELSE [admin EXCEPT !.pc = "loop", !.retry = 0]
  /\ UNCHANGED <<cred, now, environ, overlap, seen, procs, loop, last, runtime, codec, files>>

\* one pass of while retry <= max_retry, and the raise after the loop when
\* the pass ends it
insert_one ==
  /\ admin.pc = "loop"
  /\ admin.retry <= max_retry
  /\ admin.inserts < MaxInserts
  /\ \E o \in InsertOutcomes :
       LET tried == [admin EXCEPT !.inserts = @ + 1, !.outs = Append(@, o)] IN
       admin' =
         CASE o.exc = "none" /\ o.id ->
                [tried EXCEPT !.pc = "done", !.committed = TRUE, !.users = @ + 1,
                              !.ret = "System Admin created with id"]
           [] o.exc = "none" /\ ~o.id -> tried
           [] o.exc \in PyMongoErrors /\ o.label ->
                IF admin.retry + 1 <= max_retry
                THEN [tried EXCEPT !.retry = @ + 1]
                ELSE [tried EXCEPT !.retry = @ + 1, !.pc = "done",
                                   !.exc = "Can't process registration"]
           [] OTHER ->
                [tried EXCEPT !.pc = "done", !.aborted = TRUE, !.exc = o.exc]
  /\ UNCHANGED <<cred, now, environ, overlap, seen, procs, loop, last, runtime, codec, files>>

\* the caller took what create_system_admin returned or raised; the user
\* collection stays as the call left it
AdminTaken ==
  /\ admin.pc = "done"
  /\ admin' = [NoAdmin EXCEPT !.users = admin.users]
  /\ UNCHANGED <<cred, now, environ, overlap, seen, procs, loop, last, runtime, codec, files>>

\* the collection holds a user with the configured email or none
InitAdmin ==
  /\ ROOT_ID = Unset
  /\ TOKEN = Unset
  /\ EXPIRATION = EmptyStr
  /\ now = 0
  /\ environ = [JIVAS_USER |-> TRUE, JIVAS_PASSWORD |-> TRUE,
                JIVAS_WEBHOOK_SECRET_KEY |-> DefaultSecret]
  /\ procs = [p \in Callers |-> IdleProc]
  /\ loop = 0
  /\ overlap = FALSE
  /\ last = NoLast
  /\ seen = NoSeen
  /\ JASECI_CONTEXT = [p \in Callers |-> 0]
  /\ ctxs = <<>>
  /\ store = 0
  /\ codec = NoCodec
  /\ files = NoFiles
  /\ admin \in {[NoAdmin EXCEPT !.users = n] : n \in {0, 1}}

NextAdmin ==
  \/ Call_create_system_admin
  \/ insert_one
  \/ AdminTaken

SpecAdmin == InitAdmin /\ [][NextAdmin]_vars

\* ================================================================ claims
CredOps == {"get_user_context", "get_user_context_async"}
GatewayOps == {"interact", "webhook_exec", "action_walker_exec"}

\* the three fields as one complete login response carries them
FromResponse(body) ==
  [root_id |-> body.rid, token |-> body.rid, expiration |-> body.expiration]

\* the three fields of c come from one login response
OneResponse(c) == c.token = c.root_id /\ c.expiration.src = c.token

\* C1: a call of get_user_context or get_user_context_async whose first login
\* answered non-200, whose registration answered 201 and whose retry login
\* answered 200 with a complete body made exactly the outbound calls login,
\* register, login, and when it has ended ROOT_ID, TOKEN and EXPIRATION are
\* the values of the retry-login response, the expiration lying in the future.
C1_RetryLoginPopulates ==
  (/\ last.call.op \in CredOps
   /\ last.call.outs = <<"fail", "201", "200">>
   /\ last.call.resp.shape = "full")
  => /\ last.call.calls = <<"login", "register", "login">>
     /\ Cached = FromResponse(last.call.resp)
     /\ Truthy(EXPIRATION)
     /\ EXPIRATION.n > last.call.t0

\* C2: a call of get_user_context or get_user_context_async that began with
\* a cached expiration strictly greater than the current time returned, made
\* no outbound call, returned the cached root_id, token and expiration, and
\* left the three class attributes as they were.
C2_CacheHit ==
  (/\ last.call.op \in CredOps
   /\ Truthy(last.call.was.expiration)
   /\ last.call.was.expiration.n > last.call.t0)
  => /\ last.call.ret = "returned"
     /\ last.call.calls = <<>>
     /\ last.call.ctx = last.call.was
     /\ Cached = last.call.was

\* C3: with JIVAS_USER and JIVAS_PASSWORD set, a call of get_user_context or
\* get_user_context_async that began with an empty cached expiration, or one
\* not greater than the current time, made a login call first.
C3_CacheMiss ==
  (/\ last.call.op \in CredOps
   /\ Configured(environ)
   /\ \/ last.call.was.expiration = EmptyStr
      \/ last.call.was.expiration.n <= last.call.t0)
  => /\ Len(last.call.calls) >= 1
     /\ last.call.calls[1] = "login"

\* C4: a call of get_user_context and a call of get_user_context_async that
\* began with the same class attributes at the same time and got the same
\* outcomes from the auth endpoints made the same outbound calls, ended the
\* same way with the same dict, and left the same class attributes.
C4_VariantsAgree ==
  (/\ seen.call.op = "get_user_context"
   /\ last.call.op = "get_user_context_async"
   /\ last.call.was = seen.call.was
   /\ last.call.t0 = seen.call.t0
   /\ last.call.outs = seen.call.outs
   /\ last.call.resp = seen.call.resp)
  => /\ last.call.calls = seen.call.calls
     /\ last.call.ret = seen.call.ret
     /\ last.call.exc = seen.call.exc
     /\ last.call.ctx = seen.call.ctx
     /\ Cached = seen.left

\* C5: when a call of get_user_context or get_user_context_async has ended,
\* ROOT_ID, TOKEN and EXPIRATION are all three the values of the one login
\* response the call read, or all three what they were before the call, or
\* what they were before the call with EXPIRATION alone cleared.
C5_NeverPartial ==
  last.call.op \in CredOps
  => \/ Cached = last.call.was
     \/ Cached = [last.call.was EXCEPT !.expiration = EmptyStr]
     \/ /\ last.call.resp.shape = "full"
        /\ Cached = FromResponse(last.call.resp)

\* C6: with calls of get_user_context and get_user_context_async overlapping,
\* the dict a call returned from the cache-hit branch holds a token, a
\* root_id and an expiration of one login response, and so do the class
\* attributes whenever no call is under way and EXPIRATION is set.
C6_NoMixedCredential ==
  /\ (/\ last.call.op \in CredOps
      /\ last.call.ret = "returned"
      /\ last.call.calls = <<>>
      /\ DictTruthy(last.call.ctx))
     => OneResponse(last.call.ctx)
  /\ (/\ \A p \in DOMAIN procs : procs[p].pc = "idle"
      /\ Truthy(EXPIRATION))
     => OneResponse(Cached)

\* C7: a call of interact, webhook_exec or action_walker_exec that has ended
\* did not raise out of ctx.close(), and the execution context opened for
\* it, if any, has been closed.
C7_ContextReleased ==
  last.call.op \in GatewayOps
  => /\ last.call.exc # NoClose
     /\ last.call.xctx # 0 => ctxs[last.call.xctx] >= 1

\* C8: a call of webhook_exec that has ended returned, and what it returned
\* is the JSONResponse 200 "200 OK" or a JSONResponse 200 holding the
\* runtime's result.
C8_WebhookAlways200 ==
  last.call.op = "webhook_exec"
  => /\ last.call.ret = "returned"
     /\ last.call.response \in {JSONResponse(200, "200 OK"), JSONResponse(200, "result")}

\* the key does not decode, or decodes to an object in which agent_id,
\* module_root or walker is missing or empty
KeyIncomplete(key) ==
  \/ key.kind = "unparseable"
  \/ /\ key.kind = "dict"
     /\ key.agent_id # "set" \/ key.module_root # "set" \/ key.walker # "set"

\* C9: a call of webhook_exec whose key does not decode, or decodes to an
\* object in which agent_id, module_root or walker is missing or empty,
\* returned the JSONResponse 200 "200 OK" without entering
\* get_user_context_async, without an outbound call, without an execution
\* context and without spawning a walker; ROOT_ID, TOKEN, EXPIRATION and the
\* execution contexts are as they were when the call began.
C9_IncompleteKeyPlaceholder ==
  (last.call.op = "webhook_exec" /\ KeyIncomplete(last.call.key))
  => /\ last.call.ret = "returned"
     /\ last.call.response = JSONResponse(200, "200 OK")
     /\ ~last.call.acquiring
     /\ last.call.calls = <<>>
     /\ last.call.xctx = 0
     /\ last.call.invoked = NoInvoke
     /\ ~last.call.caught
     /\ Cached = last.call.was

\* a required form field is empty
RequiredEmpty(form) == form.agent_id = "" \/ form.walker = "" \/ form.module_root = ""

\* assembling the attributes raises: json.loads(args), attributes.update(...)
\* or await file.read()
AssembleRaises(form) == form.args \in {"invalid", "notdict"} \/ form.attachments = "fail"

\* C10, as stated: a call of action_walker_exec with agent_id, module_root or
\* walker empty returned status 401, whatever args and attachments were.
C10_Always401 ==
  (last.call.op = "action_walker_exec" /\ RequiredEmpty(last.call.form))
  => /\ last.call.ret = "returned"
     /\ last.call.response.kind = "JSONResponse"
     /\ last.call.response.status = 401

\* C10, amended: a call of action_walker_exec with agent_id, module_root or
\* walker empty returned 401 "missing required parameters" if assembling the
\* attributes raised nothing, and 500 "internal server error" if args was no
\* JSON object or an attachment could not be read; either way without
\* entering get_user_context_async and without an execution context.
C10_401UnlessAssembleRaises ==
  (last.call.op = "action_walker_exec" /\ RequiredEmpty(last.call.form))
  => /\ last.call.ret = "returned"
     /\ last.call.response =
          IF AssembleRaises(last.call.form)
          THEN JSONResponse(500, "internal server error")
          ELSE JSONResponse(401, "missing required parameters")
     /\ ~last.call.acquiring
     /\ last.call.xctx = 0

\* C10 witness: a call with module_root alone empty, args a JSON object and
\* a readable attachment has ended with 401
C10_Witness ==
  /\ last.call.op = "action_walker_exec"
  /\ last.call.form.agent_id = "set"
  /\ last.call.form.walker = "set"
  /\ last.call.form.module_root = ""
  /\ last.call.form.args = "dict"
  /\ last.call.form.attachments = "ok"
  /\ last.call.response.status = 401

\* C11: a call of action_walker_exec in which assembling the attributes
\* raised (args that json.loads or dict.update refuses, an attachment whose
\* read fails) returned the JSONResponse 500 "internal server error" without
\* entering get_user_context_async, without an outbound call, without an
\* execution context and without spawning a walker, whatever the required
\* fields were.
C11_AssembleFault500 ==
  (last.call.op = "action_walker_exec" /\ AssembleRaises(last.call.form))
  => /\ last.call.ret = "returned"
     /\ last.call.response = JSONResponse(500, "internal server error")
     /\ ~last.call.acquiring
     /\ last.call.calls = <<>>
     /\ last.call.xctx = 0
     /\ last.call.invoked = NoInvoke
     /\ Cached = last.call.was

\* C11 witness: a call with the three required fields set and args not JSON
\* has ended while a credential was cached and not expired
C11_Witness ==
  /\ last.call.op = "action_walker_exec"
  /\ ~RequiredEmpty(last.call.form)
  /\ last.call.form.args = "invalid"
  /\ last.call.form.attachments = "ok"
  /\ last.call.response.status = 500
  /\ last.call.was.expiration.t = "str"
  /\ last.call.was.expiration.n > last.call.t0

\* C12: a call of interact that has ended returned (it raised nothing); it
\* returned {} when no execution context was opened and when the runtime
\* raised, and when the runtime raised EXPIRATION is cleared.
C12_InteractNeverRaises ==
  last.call.op = "interact"
  => /\ last.call.ret = "returned"
     /\ (last.call.xctx = 0 \/ last.call.caught) => last.call.response = Raw("{}")
     /\ last.call.caught => EXPIRATION = EmptyStr

\* C13: a call of get_user_context or get_user_context_async whose login
\* answered non-200 and whose registration answered non-201 made exactly the
\* outbound calls login, register, returned the empty dict, and left ROOT_ID
\* and TOKEN as they were when the call began.
C13_RegisterFails ==
  (/\ last.call.op \in CredOps
   /\ Len(last.call.outs) >= 2
   /\ last.call.outs[1] = "fail"
   /\ last.call.outs[2] = "fail")
  => /\ last.call.calls = <<"login", "register">>
     /\ last.call.ret = "returned"
     /\ last.call.ctx = EmptyCtx
     /\ ROOT_ID = last.call.was.root_id
     /\ TOKEN = last.call.was.token

\* C13 witness: such a call has ended, begun with the ROOT_ID and TOKEN of an
\* earlier login whose expiration had passed
C13_Witness ==
  /\ last.call.op \in CredOps
  /\ last.call.outs = <<"fail", "fail">>
  /\ last.call.was.root_id # Unset
  /\ last.call.was.token # Unset
  /\ last.call.was.expiration.t = "str"

\* C14: a call of get_user_context or get_user_context_async in which the
\* except clause ran (a transport fault, a fault while a response was read)
\* ends with EXPIRATION cleared, so that the cache check of the next call
\* misses, and returned the empty dict.
C14_FaultClearsExpiration ==
  (last.call.op \in CredOps /\ last.call.caught)
  => /\ EXPIRATION = EmptyStr
     /\ CacheCheck(EXPIRATION, now) = "miss"
     /\ last.call.ret = "returned"
     /\ ~DictTruthy(last.call.ctx)

\* C15: a call of get_user_context or get_user_context_async whose cache
\* check missed while JIVAS_USER or JIVAS_PASSWORD was not set returned the
\* empty dict, made no outbound call, and left ROOT_ID, TOKEN and EXPIRATION
\* as they were.
C15_NotConfigured ==
  (/\ last.call.op \in CredOps
   /\ CacheCheck(last.call.was.expiration, last.call.t0) = "miss"
   /\ ~environ.JIVAS_USER \/ ~environ.JIVAS_PASSWORD)
  => /\ last.call.ret = "returned"
     /\ last.call.ctx = EmptyCtx
     /\ last.call.calls = <<>>
     /\ ~last.call.caught
     /\ Cached = last.call.was

\* C15 witness: a call of the coroutine variant has ended with the user set
\* and the password not set
C15_Witness ==
  /\ last.call.op = "get_user_context_async"
  /\ last.call.ret = "returned"
  /\ environ.JIVAS_USER
  /\ ~environ.JIVAS_PASSWORD

\* C16: a call of api_interact or api_pulse whose request to the walker
\* endpoint was answered 401 returned {}, and when it has ended EXPIRATION is
\* cleared, so that a call of get_user_context begun then (or later, nothing
\* else having run) misses the cache and makes a login call.
C16_Unauthorized ==
  (/\ last.call.op \in {"api_interact", "api_pulse"}
   /\ Len(last.call.outs) >= 1
   /\ last.call.outs[Len(last.call.outs)] = "401")
  => /\ last.call.ret = "returned"
     /\ last.call.response = Raw("{}")
     /\ EXPIRATION = EmptyStr
     /\ \A t \in now..MaxTime :
          CredEnter(Begin("get_user_context"), EXPIRATION, t, environ).calls = <<"login">>

\* C16 witness: a call of api_pulse that took a cached, unexpired credential
\* from the cache-hit branch has ended with 401
C16_Witness ==
  /\ last.call.op = "api_pulse"
  /\ last.call.calls = <<"walker">>
  /\ last.call.outs = <<"401">>
  /\ last.call.was.expiration.t = "str"
  /\ last.call.was.expiration.n > last.call.t0

\* the alphabet a secret derives: the first part, then the second
Alphabet(secret) ==
  generate_cipher_alphabet(secret)[1] \o generate_cipher_alphabet(secret)[2]

\* the last codec call decoded an issued key to the fields it was issued for
YieldsOriginal ==
  /\ codec.exc = "none"
  /\ codec.out.kind = "dict"
  /\ codec.out.val = TupleDict(codec.fields[1], codec.fields[2], codec.fields[3])

\* C17: under every secret encrypt_webhook_key issues a key, and
\* decrypt_webhook_key of that key under the same secret returns the dict of
\* the three fields the key was issued for.
C17_RoundTrip ==
  /\ codec.op = "encrypt_webhook_key" => codec.exc = "none"
  /\ (/\ codec.op = "decrypt_webhook_key"
      /\ codec.issued
      /\ codec.secret = environ.JIVAS_WEBHOOK_SECRET_KEY)
     => YieldsOriginal

\* C18: whenever the codec is called, the alphabet derived from the secret
\* of the environment is a permutation of the 52 letters a-z, A-Z.
C18_AlphabetPermutation ==
  codec.op # "none"
  => LET alphabet == Alphabet(environ.JIVAS_WEBHOOK_SECRET_KEY) IN
     /\ Len(alphabet) = Len(ascii_letters)
     /\ CharsOf(alphabet) = CharsOf(ascii_letters)

\* C19, as claimed: a key issued under one secret and decoded under a
\* different secret never decodes to the fields it was issued for.
C19_RotationInvalidates ==
  (/\ codec.op = "decrypt_webhook_key"
   /\ codec.issued
   /\ codec.secret # environ.JIVAS_WEBHOOK_SECRET_KEY)
  => ~YieldsOriginal

\* the letters of the three field names
NameLetters == CharsOf(agent_id_name \o module_root_name \o walker_name) \ {"_"}

\* the two secrets derive alphabets that put different letters in the place
\* of some letter of the field names
MismatchOnNames(s1, s2) ==
  \E c \in NameLetters :
    Alphabet(s1)[IndexIn(ascii_letters, c)] # Alphabet(s2)[IndexIn(ascii_letters, c)]

\* C19: the alphabets decide, not the secrets.  A key issued under one secret
\* and decoded under another does not decode to the fields it was issued for
\* when the two derived alphabets differ in the place of a letter of the
\* field names, and does decode to them when the two secrets derive the same
\* alphabet of 52 letters.
C19_AlphabetMismatch ==
  (/\ codec.op = "decrypt_webhook_key"
   /\ codec.issued
   /\ codec.secret # environ.JIVAS_WEBHOOK_SECRET_KEY)
  => /\ MismatchOnNames(codec.secret, environ.JIVAS_WEBHOOK_SECRET_KEY)
          => ~YieldsOriginal
     /\ Alphabet(codec.secret) = Alphabet(environ.JIVAS_WEBHOOK_SECRET_KEY)
          => YieldsOriginal

\* a key issued under "a" and decoded under "b": a dict of other names
C19_Witness ==
  /\ codec.op = "decrypt_webhook_key"
  /\ codec.issued
  /\ codec.secret = <<"a">>
  /\ environ.JIVAS_WEBHOOK_SECRET_KEY = <<"b">>
  /\ codec.out.kind = "dict"
  /\ ~YieldsOriginal

\* the percent-decoded, inverse-substituted text of a key
KeyText(secret, key) ==
  translate(unquote(key), maketrans(Alphabet(secret), ascii_letters))

\* C20: no exception leaves decrypt_webhook_key, and when the percent-decoded,
\* inverse-substituted text of its argument is not parseable JSON it returns
\* the empty dict.
C20_DecryptNeverRaises ==
  codec.op = "decrypt_webhook_key"
  => /\ codec.exc = "none"
     /\ json_loads(KeyText(environ.JIVAS_WEBHOOK_SECRET_KEY, codec.key)).kind = "raise"
          => (codec.out.kind = "dict" /\ codec.out.val = {})

\* C21: with no fault of the operating system, get_file of the local
\* interface returns what the last save_file or delete_file of that name
\* left (the bytes saved, None when never saved or deleted since), and
\* delete_file returns True exactly when the name was there; neither raises.
C21_LocalIsAMap ==
  (/\ files.FILE_INTERFACE = "local"
   /\ ~files.call.fault)
  => /\ files.call.op = "get_file"
          => (files.call.exc = "none" /\ files.call.out = files.call.was)
     /\ files.call.op = "delete_file"
          => /\ files.call.exc = "none"
             /\ files.call.out = (IF files.call.was # "None" THEN "True" ELSE "False")

\* C22: get_file and delete_file of the S3 interface, the object store
\* raising, return None and False and raise nothing.
C22_S3FaultIsAbsence ==
  (/\ files.FILE_INTERFACE = "s3"
   /\ files.call.op \in {"get_file", "delete_file"}
   /\ files.call.fault)
  => /\ files.call.exc = "none"
     /\ files.call.out = (IF files.call.op = "get_file" THEN "None" ELSE "False")

\* get_file of a saved name, the object store raising
C22_Witness ==
  /\ files.FILE_INTERFACE = "s3"
  /\ files.call.op = "get_file"
  /\ files.call.fault
  /\ files.call.was # "None"
  /\ files.call.out = "None"

\* C23: no call of either file interface raises.
C23_NothingRaised == files.call.op # "none" => files.call.exc = "none"

\* C24: the collection never holds more than one system-root record, and a
\* step that changes their number finds none and leaves one: a call of
\* get_jaseci_context that finds the record inserts nothing.
C24_BootstrapIdempotent ==
  /\ [](store \in {0, 1})
  /\ [][store' # store => (store = 0 /\ store' = 1)]_vars

\* two contexts were built, the second finding the record the first left
C24_Witness == Len(ctxs) = 2 /\ store = 1

\* C25: on each caller's logical thread the context a call opened is the
\* one registered as current there, no context is registered on two
\* threads, and every context that is registered nowhere (one opened before
\* the current one of its thread) is closed.
C25_OneCurrentContext ==
  /\ \A p \in Callers :
       /\ procs[p].xctx # 0 => JASECI_CONTEXT[p] = procs[p].xctx
       /\ \A q \in Callers :
            (JASECI_CONTEXT[p] # 0 /\ JASECI_CONTEXT[p] = JASECI_CONTEXT[q]) => p = q
  /\ last.call.xctx # 0 => JASECI_CONTEXT[last.caller] = last.call.xctx
  /\ \A k \in 1..Len(ctxs) :
       (\A p \in Callers : JASECI_CONTEXT[p] # k) => ctxs[k] >= 1

\* a context load_context_async handed out open, closed by the next open
C25_Witness ==
  /\ Len(ctxs) = 2
  /\ ctxs[1] = 1
  /\ ctxs[2] = 0
  /\ last.call.op = "load_context_async"

\* C30: no execution context is closed more than once.
C30_ClosedOnce == \A k \in 1..Len(ctxs) : ctxs[k] <= 1

C27_BehindAuthenticator ==
  /\ last.call.op = "authenticator"
       => /\ last.call.response = JSONResponse(403, "Not authenticated")
          /\ last.call.calls = <<>>
          /\ ~last.call.acquiring
          /\ last.call.xctx = 0
          /\ last.call.invoked = NoInvoke
  /\ last.call.op = "action_walker_exec" => last.call.bearer # "none"
  /\ \A p \in Callers : procs[p].op = "action_walker_exec" => procs[p].bearer # "none"

\* a request without a credential was rejected
C27_Witness ==
  /\ last.call.op = "authenticator"
  /\ last.call.bearer = "none"
  /\ last.call.response.status = 403

\* the calls of rec to the login and register endpoints
CredentialCalls(rec) ==
  LET IsCredentialCall(c) == c \in {"login", "register"} IN SelectSeq(rec.calls, IsCredentialCall)

\* the outbound calls of one acquisition are ordered and sequential
Sequential(rec) ==
  LET cs == CredentialCalls(rec)
      order == <<"login", "register", "login">>
  IN /\ Len(cs) <= 3
     /\ cs = SubSeq(order, 1, Len(cs))
     /\ SubSeq(rec.calls, 1, Len(cs)) = cs
     /\ Len(cs) >= 2 => rec.outs[1] = "fail"
     /\ Len(cs) = 3 => rec.outs[2] = "201"
     /\ \A i \in 1..Len(rec.outs) :
          (i <= Len(cs) /\ cs[i] = "login" /\ rec.outs[i] = "200") => i = Len(cs)
     /\ Len(rec.calls) - Len(rec.outs) \in {0, 1}

\* C28: in every call, under way or ended, the calls to the login and
\* register endpoints are a prefix of login, register, login; the register
\* call follows a login that answered non-200, the second login a register
\* that answered 201; no such call follows a login that answered 200; and
\* at most one call is without its answer.
C28_CallsSequential ==
  /\ Sequential(last.call)
  /\ \A p \in Callers : Sequential(procs[p])

\* an acquisition that made all three calls, the retry login refused
C28_Witness ==
  /\ last.call.calls = <<"login", "register", "login">>
  /\ last.call.outs = <<"fail", "201", "fail">>

\* C29: the step in which action_walker_exec, its context open, comes back
\* from the runtime leaves ROOT_ID and TOKEN as they are; it returns either
\* the placeholder 500 "unable to complete request", with EXPIRATION
\* cleared, or the runtime's result as it is, with EXPIRATION untouched.
C29_ActionOutcome ==
  [][\A p \in Callers :
       (/\ procs[p].op = "action_walker_exec"
        /\ procs[p].pc = "spawn"
        /\ procs'[p].pc = "idle")
       => /\ last'.call.op = "action_walker_exec"
          /\ ROOT_ID' = ROOT_ID
          /\ TOKEN' = TOKEN
          /\ IF last'.call.response = JSONResponse(500, "unable to complete request")
             THEN EXPIRATION' = EmptyStr
             ELSE /\ last'.call.response.kind = "raw"
                  /\ last'.call.response.content \in RuntimeOutcomes \ {"raise"}
                  /\ EXPIRATION' = EXPIRATION]_vars

\* the runtime raised under a credential that had been acquired
C29_Witness ==
  /\ last.call.op = "action_walker_exec"
  /\ last.call.invoked # NoInvoke
  /\ last.call.response = JSONResponse(500, "unable to complete request")
  /\ TOKEN # Unset
  /\ EXPIRATION = EmptyStr

\* C31: whenever action_walker_exec has invoked the runtime, the agent_id
\* among the attributes it passed is the agent_id form field of the
\* request, whatever the args JSON held.
C31_AgentIdFromForm ==
  (last.call.op = "action_walker_exec" /\ last.call.invoked # NoInvoke)
  => last.call.invoked.agent_id = "form"

\* the pass met an error that is not a transient transaction error
NonTransient(o) == o.exc # "none" /\ ~o.label

\* C32: whatever the passes through the insert meet, create_system_admin
\* makes at most max_retry + 1 insert attempts; a call that ended returned
\* something or raised; it made no insert when a user with the configured
\* email existed; and a call whose last pass met a non-transient error
\* aborted the transaction and raised that error.
C32_BoundedInserts ==
  /\ admin.inserts <= max_retry + 1
  /\ admin.pc = "done" => (admin.ret # "none" \/ admin.exc # "none")
  /\ admin.found => admin.inserts = 0
  /\ (admin.pc = "done" /\ admin.outs # <<>> /\ NonTransient(admin.outs[Len(admin.outs)]))
     => (admin.aborted /\ admin.exc = admin.outs[Len(admin.outs)].exc)
====
